---- MODULE Spec2Model ----
(***************************************************************************)
(* probeSystemHAChecksum of pkg/probe/system_ha_checksum.go: one poll of   *)
(* the appliance's HA checksum endpoint and the metrics derived from it.   *)
(***************************************************************************)
EXTENDS Integers, Sequences, FiniteSets, TLC

(* ------------------------------------------------------------------ *)
(* Bounds and input domains                                            *)
(* ------------------------------------------------------------------ *)

\* Largest number of members in a decoded response.
MaxMembers == 2

\* serial_no of the i-th unit of a cluster.
Serial(i) == "FGT" \o ToString(i)

\* Values of is_manage_master / is_root_master.  The fields are Go ints, so
\* the decoder accepts values other than 0 and 1.
FlagValues == {0, 1, 2}

\* Checksum strings; "" is what a missing JSON field decodes to.
Checksums == {"", "x"}

\* Virtual-domain names; "root" is the name of the root virtual domain.
VdomNames == {"root", "v1"}

\* map[string]string values of HAChecksum.Vdoms (a nil map is the empty map).
VdomMaps == UNION {[D -> Checksums] : D \in SUBSET VdomNames}

(* ------------------------------------------------------------------ *)
(* Types                                                               *)
(* ------------------------------------------------------------------ *)

\* type HAChecksum.
HAChecksum == [Global : Checksums, Root : Checksums, All : Checksums, Vdoms : VdomMaps]

\* A checksum set every field of which is set and which has one vdom.
BaseChecksum == [Global |-> "x", Root |-> "x", All |-> "x", Vdoms |-> [v \in {"root"} |-> "x"]]

\* type HAChecksumResults, the serial left to be filled in: the members with
\* the base checksums and any role flags, those with the base roles and vdoms
\* and any global, root and all checksum, and those with the base roles and
\* global, root and all checksums and any vdom map.
HAChecksumResults ==
    {r \in [IsManageMaster : FlagValues, IsRootMaster : FlagValues,
            SerialNo : {""}, Checksum : HAChecksum] :
        \/ r.Checksum = BaseChecksum
        \/ /\ r.IsManageMaster = 1
           /\ r.IsRootMaster = 1
           /\ \/ r.Checksum.Vdoms = BaseChecksum.Vdoms
              \/ /\ r.Checksum.Global = BaseChecksum.Global
                 /\ r.Checksum.Root = BaseChecksum.Root
                 /\ r.Checksum.All = BaseChecksum.All}

\* The serials of n members: pairwise distinct, or all the same (the decoder
\* accepts any string, so two members may report one serial).
SerialNos(n) == {[i \in 1..n |-> Serial(i)], [i \in 1..n |-> Serial(1)]}

\* type HAChecksumResponse: the decoded "results" arrays of n members.
HAChecksumResponse(n) ==
    {[i \in 1..n |-> [r[i] EXCEPT !.SerialNo = s[i]]] :
        r \in [1..n -> HAChecksumResults], s \in SerialNos(n)}

(* ------------------------------------------------------------------ *)
(* Metrics                                                             *)
(* ------------------------------------------------------------------ *)

IsMaster == "fortigate_ha_member_has_role"
ChecksumSync == "fortigate_ha_checksum_sync"

\* float64(i) of a Go int: exact for every |i| <= 2^53, which covers every
\* integer the model checker represents.
Float64(i) == i

\* prometheus.MustNewConstMetric(desc, GaugeValue, value, labels...): both
\* descriptors have two variable labels and every call passes two values, so
\* it never panics.
MustNewConstMetric(desc, value, l1, l2) ==
    [desc |-> desc, value |-> value, labels |-> <<l1, l2>>]

\* The role metrics with the two flags exchanged.
RoleMetricsSwapped(response) ==
    << MustNewConstMetric(IsMaster, Float64(response.IsRootMaster),
                          "manage_master", response.SerialNo),
       MustNewConstMetric(IsMaster, Float64(response.IsManageMaster),
                          "root_master", response.SerialNo) >>

\* Lines 65-66: the two role metrics of one member.
RoleMetrics(response) ==
    << MustNewConstMetric(IsMaster, Float64(response.IsManageMaster),
                          "manage_master", response.SerialNo),
       MustNewConstMetric(IsMaster, Float64(response.IsRootMaster),
                          "root_master", response.SerialNo) >>

\* Lines 64-67: the role loop, from member i on, appending to m.
RECURSIVE RoleLoop(_, _, _)
RoleLoop(Results, i, m) ==
    IF i > Len(Results) THEN m
    ELSE RoleLoop(Results, i + 1, m \o RoleMetrics(Results[i]))

\* Lines 76-79.
GlobalSync(node, referenceNode) ==
    IF node.Checksum.Global # referenceNode.Checksum.Global THEN 0 ELSE 1

\* The root comparison reading the global checksums.
RootSyncOfGlobal(node, referenceNode) ==
    IF node.Checksum.Global # referenceNode.Checksum.Global THEN 0 ELSE 1

\* Lines 83-86.
RootSync(node, referenceNode) ==
    IF node.Checksum.Root # referenceNode.Checksum.Root THEN 0 ELSE 1

\* Lines 90-93.
AllSync(node, referenceNode) ==
    IF node.Checksum.All # referenceNode.Checksum.All THEN 0 ELSE 1

\* The vdom comparison without the exists test: a key the reference map lacks
\* reads as the empty string.
VdomSyncZeroValue(vdom, checksum, referenceNode) ==
    LET exists == vdom \in DOMAIN referenceNode.Checksum.Vdoms
        referenceChecksum == IF exists THEN referenceNode.Checksum.Vdoms[vdom] ELSE ""
    IN IF checksum # referenceChecksum THEN 0 ELSE 1

\* Lines 98-101.
VdomSync(vdom, checksum, referenceNode) ==
    LET exists == vdom \in DOMAIN referenceNode.Checksum.Vdoms
    IN IF ~exists \/ checksum # referenceNode.Checksum.Vdoms[vdom] THEN 0 ELSE 1

\* The orders in which a range statement may visit the keys of a map: Go
\* leaves the iteration order of a map unspecified.
RangeOrders(map) ==
    LET keys == DOMAIN map
    IN {o \in [1..Cardinality(keys) -> keys] : \A i, j \in DOMAIN o : o[i] = o[j] => i = j}

\* The vdom name used as the label as it is.
ChecksumTypeBare(vdom) == vdom

\* Line 102: the checksum_type label of a vdom.
ChecksumType(vdom) == "vdom_" \o vdom

\* The vdom loop run over the union of the two maps: after the node's own
\* keys, each key only the reference has is reported out of sync.
VdomLoopOverUnion(node, referenceNode, order) ==
    LET missing == DOMAIN referenceNode.Checksum.Vdoms \ DOMAIN node.Checksum.Vdoms
        rest == CHOOSE o \in [1..Cardinality(missing) -> missing] :
                    \A i, j \in DOMAIN o : o[i] = o[j] => i = j
    IN [k \in 1..Len(order) |->
            MustNewConstMetric(ChecksumSync,
                VdomSync(order[k], node.Checksum.Vdoms[order[k]], referenceNode),
                ChecksumType(order[k]), node.SerialNo)]
       \o [k \in 1..Len(rest) |->
            MustNewConstMetric(ChecksumSync, 0, ChecksumType(rest[k]), node.SerialNo)]

\* Lines 97-103: the vdom loop of one node, visiting the keys in the given order.
VdomLoop(node, referenceNode, order) ==
    [k \in 1..Len(order) |->
        MustNewConstMetric(ChecksumSync,
            VdomSync(order[k], node.Checksum.Vdoms[order[k]], referenceNode),
            ChecksumType(order[k]), node.SerialNo)]

\* Lines 75-103: the metrics one iteration of the node loop appends.
NodeMetrics(node, referenceNode, order) ==
    << MustNewConstMetric(ChecksumSync, GlobalSync(node, referenceNode), "global", node.SerialNo),
       MustNewConstMetric(ChecksumSync, RootSync(node, referenceNode), "root", node.SerialNo),
       MustNewConstMetric(ChecksumSync, AllSync(node, referenceNode), "all", node.SerialNo) >>
    \o VdomLoop(node, referenceNode, order)

\* Lines 74-104: the node loop from member i on, appending to m; every
\* sequence it can produce, one per choice of map iteration orders.
RECURSIVE NodeLoop(_, _, _, _)
NodeLoop(Results, referenceNode, i, m) ==
    IF i > Len(Results) THEN {m}
    ELSE UNION { NodeLoop(Results, referenceNode, i + 1,
                          m \o NodeMetrics(Results[i], referenceNode, order)) :
                 order \in RangeOrders(Results[i].Checksum.Vdoms) }

\* The last node taken as the reference.
ReferenceNodeLast(Results) == Results[Len(Results)]

\* The first manage-master taken as the reference, the first node if there is none.
ReferenceNodeByRole(Results) ==
    LET masters == {i \in DOMAIN Results : Results[i].IsManageMaster = 1}
    IN IF masters = {} THEN Results[1]
       ELSE Results[CHOOSE i \in masters : \A j \in masters : i <= j]

\* Line 72: the reference node of a response of more than one member.
ReferenceNode(Results) == Results[1]

\* The comparison run for every cluster that has a member.
MetricsOfAnyCluster(Results) ==
    LET m == RoleLoop(Results, 1, << >>)
    IN IF Len(Results) > 0
       THEN NodeLoop(Results, ReferenceNode(Results), 1, m)
       ELSE {m}

\* Lines 61-107: what the function can return for a decoded response.
Metrics(Results) ==
    LET m == RoleLoop(Results, 1, << >>)
    IN IF Len(Results) > 1
       THEN NodeLoop(Results, ReferenceNode(Results), 1, m)
       ELSE {m}

(* ------------------------------------------------------------------ *)
(* State                                                               *)
(* ------------------------------------------------------------------ *)

VARIABLES
    device,    \* the results the appliance reports when the fetch succeeds
    err,       \* whether c.Get of the last poll returned an error
    res,       \* res.Results as decoded by the last poll
    m,         \* the metrics the last poll returned
    ok,        \* the flag the last poll returned
    returned,  \* whether a poll has returned
    kept       \* history: one earlier poll, what it fetched and what it returned

vars == <<device, err, res, m, ok, returned, kept>>

\* No poll kept yet.
NoPoll == [polled |-> FALSE]

\* The state before the first poll, the appliance reporting any cluster.
Init ==
    /\ \E n \in 0..MaxMembers : device \in HAChecksumResponse(n)
    /\ err = FALSE
    /\ res = << >>
    /\ m = << >>
    /\ ok = FALSE
    /\ returned = FALSE
    /\ kept = NoPoll

\* A fetch error that is logged and then ignored.
ProbeFetchErrorIgnored ==
    /\ err' = TRUE
    /\ res' = << >>
    /\ m' \in Metrics(<< >>)
    /\ ok' = TRUE
    /\ returned' = TRUE
    /\ UNCHANGED device

\* Lines 55-59: c.Get fails; the function logs and returns nil, false.
ProbeFetchError ==
    /\ err' = TRUE
    /\ res' = << >>
    /\ m' = << >>
    /\ ok' = FALSE
    /\ returned' = TRUE
    /\ UNCHANGED device

\* The metrics appended to a slice that outlives the call.
ProbeSuccessAppending ==
    /\ err' = FALSE
    /\ res' = device
    /\ m' \in {m \o run : run \in Metrics(device)}
    /\ ok' = TRUE
    /\ returned' = TRUE
    /\ UNCHANGED device

\* Lines 55-107: c.Get decodes the response into the fresh res; the function
\* builds a fresh m and returns m, true.
ProbeSuccess ==
    /\ err' = FALSE
    /\ res' = device
    /\ m' \in Metrics(device)
    /\ ok' = TRUE
    /\ returned' = TRUE
    /\ UNCHANGED device

\* Polls of an appliance whose cluster does not change: each is one call of
\* probeSystemHAChecksum.
Next ==
    \/ ProbeFetchError /\ UNCHANGED kept
    \/ ProbeSuccess /\ UNCHANGED kept

Spec == Init /\ [][Next]_vars

(* ------------------------------------------------------------------ *)
(* Polls of an appliance whose cluster changes between polls           *)
(* ------------------------------------------------------------------ *)

\* The members of the clusters that change: both vdoms set, one of them to
\* either checksum.
PolledMembers ==
    {r \in HAChecksumResults : /\ DOMAIN r.Checksum.Vdoms = VdomNames
                               /\ r.Checksum.Vdoms["root"] = "x"}

\* The clusters that change: units with distinct serials.
PolledResponse(n) ==
    {[i \in 1..n |-> [r[i] EXCEPT !.SerialNo = Serial(i)]] : r \in [1..n -> PolledMembers]}

InitPolls ==
    /\ \E n \in 0..MaxMembers : device \in PolledResponse(n)
    /\ err = FALSE
    /\ res = << >>
    /\ m = << >>
    /\ ok = FALSE
    /\ returned = FALSE
    /\ kept = NoPoll

\* The cluster changes: the next fetch decodes another response.
Change ==
    /\ \E n \in 0..MaxMembers : device' \in PolledResponse(n)
    /\ device' # device
    /\ UNCHANGED <<err, res, m, ok, returned, kept>>

\* History: any one poll is kept, with what it fetched and the set of
\* observations it returned; once a poll is kept it stays, and it is noted
\* whether a later poll fetched something else.
Remember ==
    kept' \in IF kept.polled
              THEN {[kept EXCEPT !.another = @ \/ err' # kept.err \/ res' # kept.res]}
              ELSE {kept, [polled |-> TRUE, err |-> err', res |-> res',
                           observations |-> {m'[k] : k \in DOMAIN m'}, ok |-> ok',
                           another |-> FALSE]}

NextPolls ==
    \/ ProbeFetchError /\ Remember
    \/ ProbeSuccess /\ Remember
    \/ Change

SpecPolls == InitPolls /\ [][NextPolls]_vars

(* ------------------------------------------------------------------ *)
(* Reading the returned metrics                                        *)
(* ------------------------------------------------------------------ *)

Range(seq) == {seq[k] : k \in DOMAIN seq}

\* How many positions of seq hold e.
Occurrences(seq, e) == Cardinality({k \in DOMAIN seq : seq[k] = e})

IsRole(o) == o.desc = "fortigate_ha_member_has_role"
IsSyncMetric(o) == o.desc = "fortigate_ha_checksum_sync"

\* The positions of seq that hold a metric of the given name and labels.
Positions(seq, desc, l1, l2) ==
    {k \in DOMAIN seq : seq[k].desc = desc /\ seq[k].labels = <<l1, l2>>}

\* The sync metrics of seq, in order.
SyncPart(seq) == SelectSeq(seq, IsSyncMetric)

\* The role metrics of seq, in order.
RolePart(seq) == SelectSeq(seq, IsRole)

\* Number of sync observations the specification gives member node: 3 + |vdoms|.
SyncLen(node) == 3 + Cardinality(DOMAIN node.Checksum.Vdoms)

\* Sum of SyncLen over the members of Results selected by keep.
RECURSIVE SyncTotal(_, _, _)
SyncTotal(Results, i, keep) ==
    IF i > Len(Results) THEN 0
    ELSE (IF i \in keep THEN SyncLen(Results[i]) ELSE 0) + SyncTotal(Results, i + 1, keep)

\* Where the observations of member i start in the output of a poll of more
\* than one member: after the 2N role observations and the blocks of the
\* members before i.
RECURSIVE BlockStart(_, _)
BlockStart(Results, i) ==
    IF i = 1 THEN 2 * Len(Results) + 1
    ELSE BlockStart(Results, i - 1) + SyncLen(Results[i - 1])

\* The positions of the sync observations of member i, and of its vdom
\* observations alone.
Block(Results, i) == BlockStart(Results, i) .. (BlockStart(Results, i) + SyncLen(Results[i]) - 1)
VdomBlock(Results, i) == (BlockStart(Results, i) + 3) .. (BlockStart(Results, i) + SyncLen(Results[i]) - 1)

\* The checksum_type the specification gives the vdom named v.
VdomType(v) == "vdom_" \o v

\* a and b hold the same elements the same number of times.
SameBag(a, b) == \A e \in Range(a) \cup Range(b) : Occurrences(a, e) = Occurrences(b, e)

\* A poll has returned success.
Polled == returned /\ ok

(* ------------------------------------------------------------------ *)
(* C1                                                                  *)
(* ------------------------------------------------------------------ *)

\* C1: a poll returns success=false exactly when the fetch failed, and then
\* it returns no observation; when the fetch succeeded it returns success=true
\* whatever the snapshot.
C1_FetchBoundary ==
    returned => /\ (~ok) <=> err
                /\ err => Len(m) = 0

\* A poll whose fetch failed has returned.
C1_Witness == returned /\ err /\ ~ok /\ Len(device) > 0

(* ------------------------------------------------------------------ *)
(* C2                                                                  *)
(* ------------------------------------------------------------------ *)

\* The members of Results that report serial s.
WithSerial(Results, s) == {i \in DOMAIN Results : Results[i].SerialNo = s}

\* C2: a successful poll of N members returns 2N role observations, one
\* manage_master and one root_master for each member; it returns no sync
\* observation when N <= 1 and, when N > 1, 3 + |vdoms| sync observations for
\* each member, counted under the serial the member reports.
C2_Counts ==
    Polled =>
        LET N == Len(res)
            serials == {res[i].SerialNo : i \in 1..N}
        IN /\ Len(RolePart(m)) = 2 * N
           /\ Len(RolePart(m)) + Len(SyncPart(m)) = Len(m)
           /\ \A s \in serials :
                /\ Cardinality(Positions(m, "fortigate_ha_member_has_role", "manage_master", s))
                       = Cardinality(WithSerial(res, s))
                /\ Cardinality(Positions(m, "fortigate_ha_member_has_role", "root_master", s))
                       = Cardinality(WithSerial(res, s))
           /\ N <= 1 => Len(SyncPart(m)) = 0
           /\ N > 1 =>
                /\ Len(SyncPart(m)) = SyncTotal(res, 1, 1..N)
                /\ \A s \in serials :
                     Cardinality({k \in DOMAIN m : IsSyncMetric(m[k]) /\ m[k].labels[2] = s})
                         = SyncTotal(res, 1, WithSerial(res, s))

\* A successful poll of two members with distinct serials, one with two vdoms
\* and one with none.
C2_Witness ==
    /\ Polled
    /\ Len(res) = 2
    /\ res[1].SerialNo # res[2].SerialNo
    /\ Cardinality(DOMAIN res[1].Checksum.Vdoms) = 2
    /\ Cardinality(DOMAIN res[2].Checksum.Vdoms) = 0
    /\ Len(m) = 12

(* ------------------------------------------------------------------ *)
(* C3                                                                  *)
(* ------------------------------------------------------------------ *)

\* The checksum strings a field may be changed to.
ChangedChecksums == Checksums \cup {"y"}

\* The checksum fields of member i that may be changed: global, root,
\* all, and each vdom that the reference has too.
ChangeableFields(Results, i) ==
    {"global", "root", "all"}
    \cup {VdomType(v) : v \in DOMAIN Results[i].Checksum.Vdoms \cap DOMAIN Results[1].Checksum.Vdoms}

\* The value of field f in the checksum set c.
FieldValue(c, f) ==
    CASE f = "global" -> c.Global
      [] f = "root" -> c.Root
      [] f = "all" -> c.All
      [] OTHER -> c.Vdoms[CHOOSE v \in DOMAIN c.Vdoms : VdomType(v) = f]

\* The checksum set c with field f set to x.
WithField(c, f, x) ==
    CASE f = "global" -> [c EXCEPT !.Global = x]
      [] f = "root" -> [c EXCEPT !.Root = x]
      [] f = "all" -> [c EXCEPT !.All = x]
      [] OTHER -> [c EXCEPT !.Vdoms[CHOOSE v \in DOMAIN c.Vdoms : VdomType(v) = f] = x]

\* Results with field f of member i changed to x.
Changed(Results, i, f, x) ==
    [Results EXCEPT ![i].Checksum = WithField(Results[i].Checksum, f, x)]

\* The output seq of a poll of Results, read without the order in which each
\* member's vdoms were visited: the role observations in order and, for each
\* member, its global, root and all observations in order and its vdom
\* observations as a set.
UpToRangeOrder(Results, seq) ==
    << Len(seq),
       SubSeq(seq, 1, 2 * Len(Results)),
       [j \in 1..Len(Results) |->
           LET b == BlockStart(Results, j)
           IN << SubSeq(seq, b, b + 2),
                 {seq[k] : k \in (b + 3) .. (b + SyncLen(Results[j]) - 1)} >>] >>

\* C3: take the snapshot just polled and change one checksum field of a
\* non-reference member to a string that differs from the reference's. Among
\* that member's observations of this poll exactly one is of that field, and
\* every poll of the changed snapshot returns the observations of this poll
\* with that one set to 0 and no other observation changed.
C3_SingleFieldFlip ==
    (Polled /\ Len(res) > 1) =>
        \A i \in 2..Len(res) : \A f \in ChangeableFields(res, i) :
            LET at == {k \in Block(res, i) : m[k].labels[1] = f}
                flipped == CHOOSE k \in at : TRUE
                expected == UpToRangeOrder(res, [m EXCEPT ![flipped].value = 0])
            IN /\ Cardinality(at) = 1
               /\ \A x \in ChangedChecksums \ {FieldValue(res[1].Checksum, f),
                                               FieldValue(res[i].Checksum, f)} :
                     \A run \in Metrics(Changed(res, i, f, x)) :
                         UpToRangeOrder(res, run) = expected

\* A successful poll of two members that agree on every checksum, with a vdom
\* both have: each of the second member's four sync observations is 1 and a
\* change of any one field flips one of them.
C3_Witness ==
    /\ Polled
    /\ Len(res) = 2
    /\ res[2].Checksum = res[1].Checksum
    /\ DOMAIN res[1].Checksum.Vdoms # {}
    /\ \A k \in Block(res, 2) : m[k].value = 1

(* ------------------------------------------------------------------ *)
(* C4                                                                  *)
(* ------------------------------------------------------------------ *)

\* C4: in a successful poll of more than one member, the sync observations of
\* the first member (global, root, all and one for each of its vdoms) all
\* have value 1.
C4_ReferenceInSync ==
    (Polled /\ Len(res) > 1) =>
        /\ {m[k].labels[1] : k \in Block(res, 1)}
               = {"global", "root", "all"} \cup {VdomType(v) : v \in DOMAIN res[1].Checksum.Vdoms}
        /\ \A k \in Block(res, 1) :
              /\ IsSyncMetric(m[k])
              /\ m[k].labels[2] = res[1].SerialNo
              /\ m[k].value = 1

\* A successful poll of two members whose first has empty checksum strings
\* and whose second differs from it.
C4_Witness ==
    /\ Polled
    /\ Len(res) = 2
    /\ res[1].Checksum.Global = ""
    /\ res[1].Checksum.Root = ""
    /\ res[2].Checksum.Global # ""
    /\ \E k \in Block(res, 2) : m[k].value = 0

(* ------------------------------------------------------------------ *)
(* C5                                                                  *)
(* ------------------------------------------------------------------ *)

\* The role observations of a successful poll are, member by member, the
\* member's two flags as decoded.
RolesAsDecoded ==
    \A i \in 1..Len(res) :
        /\ m[2 * i - 1] = [desc |-> "fortigate_ha_member_has_role",
                           value |-> res[i].IsManageMaster,
                           labels |-> <<"manage_master", res[i].SerialNo>>]
        /\ m[2 * i] = [desc |-> "fortigate_ha_member_has_role",
                       value |-> res[i].IsRootMaster,
                       labels |-> <<"root_master", res[i].SerialNo>>]

\* C5 as stated: every observation of a successful poll has value 1 or 0,
\* and a role observation's value is the member's flag as decoded.
C5_Original ==
    Polled => /\ \A k \in DOMAIN m : m[k].value \in {0, 1}
              /\ RolesAsDecoded

\* C5, amended: every sync observation of a successful poll has value 1 or 0;
\* a role observation's value is the member's flag as decoded, whatever
\* integer that is, so it is 1 or 0 exactly when the decoded flag is.
C5_Amended ==
    Polled => /\ \A k \in DOMAIN m : IsSyncMetric(m[k]) => m[k].value \in {0, 1}
              /\ RolesAsDecoded
              /\ \A i \in 1..Len(res) :
                    /\ m[2 * i - 1].value \in {0, 1} <=> res[i].IsManageMaster \in {0, 1}
                    /\ m[2 * i].value \in {0, 1} <=> res[i].IsRootMaster \in {0, 1}

\* A successful poll of two members, one a manage-master only, the other
\* decoded with a flag that is neither 0 nor 1.
C5_Witness ==
    /\ Polled
    /\ Len(res) = 2
    /\ res[1].IsManageMaster = 1 /\ res[1].IsRootMaster = 0
    /\ res[2].IsManageMaster = 2
    /\ m[3].value = 2

(* ------------------------------------------------------------------ *)
(* C6                                                                  *)
(* ------------------------------------------------------------------ *)

\* The vdom observations of member i are those of the keys of its own map.
OwnVdomsObserved(i) ==
    /\ {m[k].labels[1] : k \in VdomBlock(res, i)}
           = {VdomType(v) : v \in DOMAIN res[i].Checksum.Vdoms}
    /\ \A k \in VdomBlock(res, i) : IsSyncMetric(m[k]) /\ m[k].labels[2] = res[i].SerialNo

\* C6 as stated: for a vdom v of the reference that member i lacks, no sync
\* observation has checksum_type vdom_v and the serial of member i; the vdom
\* observations of a member are those of the keys of its own map.
C6_Original ==
    (Polled /\ Len(res) > 1) =>
        \A i \in 1..Len(res) :
            /\ \A v \in DOMAIN res[1].Checksum.Vdoms \ DOMAIN res[i].Checksum.Vdoms :
                  Positions(m, "fortigate_ha_checksum_sync", VdomType(v), res[i].SerialNo) = {}
            /\ OwnVdomsObserved(i)

\* C6, amended: the vdom observations of a member are those of the keys of its
\* own map; for a vdom v of the reference that member i lacks, a sync
\* observation with checksum_type vdom_v and the serial of member i exists
\* only if another member reports the same serial and has v.
C6_Amended ==
    (Polled /\ Len(res) > 1) =>
        \A i \in 1..Len(res) :
            /\ \A v \in DOMAIN res[1].Checksum.Vdoms \ DOMAIN res[i].Checksum.Vdoms :
                  Positions(m, "fortigate_ha_checksum_sync", VdomType(v), res[i].SerialNo) # {}
                      <=> \E j \in 1..Len(res) : /\ j # i
                                                 /\ res[j].SerialNo = res[i].SerialNo
                                                 /\ v \in DOMAIN res[j].Checksum.Vdoms
            /\ OwnVdomsObserved(i)

\* A successful poll of two members with distinct serials, the reference with
\* a vdom the other lacks, and no observation of it for the other.
C6_Witness ==
    /\ Polled
    /\ Len(res) = 2
    /\ res[1].SerialNo # res[2].SerialNo
    /\ "v1" \in DOMAIN res[1].Checksum.Vdoms
    /\ DOMAIN res[2].Checksum.Vdoms = {"root"}
    /\ Positions(m, "fortigate_ha_checksum_sync", "vdom_v1", res[2].SerialNo) = {}
    /\ Positions(m, "fortigate_ha_checksum_sync", "vdom_v1", res[1].SerialNo) # {}

(* ------------------------------------------------------------------ *)
(* C7                                                                  *)
(* ------------------------------------------------------------------ *)

\* C7: each vdom v of member i has an observation among those of member i;
\* its value is 1 if the reference has v with the same checksum string and 0
\* otherwise, so 0 when the reference lacks v, whatever the member's string.
C7_MissingOnReference ==
    (Polled /\ Len(res) > 1) =>
        \A i \in 1..Len(res) : \A v \in DOMAIN res[i].Checksum.Vdoms :
            LET onReference == v \in DOMAIN res[1].Checksum.Vdoms
                at == {k \in VdomBlock(res, i) : m[k].labels = <<VdomType(v), res[i].SerialNo>>}
            IN /\ Cardinality(at) = 1
               /\ \A k \in at :
                     /\ m[k].value \in {0, 1}
                     /\ m[k].value = 1 <=>
                            (onReference /\ res[i].Checksum.Vdoms[v] = res[1].Checksum.Vdoms[v])
                     /\ ~onReference => m[k].value = 0

\* A successful poll in which the second member has a vdom with the empty
\* checksum string that the reference lacks, observed as 0.
C7_Witness ==
    /\ Polled
    /\ Len(res) = 2
    /\ "v1" \notin DOMAIN res[1].Checksum.Vdoms
    /\ "v1" \in DOMAIN res[2].Checksum.Vdoms
    /\ res[2].Checksum.Vdoms["v1"] = ""
    /\ \E k \in VdomBlock(res, 2) : m[k].labels[1] = "vdom_v1" /\ m[k].value = 0

(* ------------------------------------------------------------------ *)
(* C8                                                                  *)
(* ------------------------------------------------------------------ *)

\* Results with every role flag cleared.
WithoutRoles(Results) ==
    [i \in DOMAIN Results |-> [Results[i] EXCEPT !.IsManageMaster = 0, !.IsRootMaster = 0]]

\* The value the specification gives a comparison of two checksum strings.
Agree(a, b) == IF a = b THEN 1 ELSE 0

\* C8: every poll of the snapshot just polled with all role flags cleared
\* returns the sync observations of this poll (so any two snapshots that
\* differ in role flags only give the same sync observations), and the global,
\* root and all observations of each member are 1 exactly when its string
\* equals the first member's.
C8_ReferenceIsFirst ==
    Polled =>
        /\ \A run \in Metrics(WithoutRoles(res)) : SameBag(SyncPart(run), SyncPart(m))
        /\ Len(res) > 1 =>
              \A i \in 1..Len(res) :
                  LET b == BlockStart(res, i)
                      sync(t, a, r) == [desc |-> "fortigate_ha_checksum_sync",
                                        value |-> Agree(a, r),
                                        labels |-> <<t, res[i].SerialNo>>]
                  IN /\ m[b] = sync("global", res[i].Checksum.Global, res[1].Checksum.Global)
                     /\ m[b + 1] = sync("root", res[i].Checksum.Root, res[1].Checksum.Root)
                     /\ m[b + 2] = sync("all", res[i].Checksum.All, res[1].Checksum.All)

\* A successful poll in which the first member is no manage-master, the
\* second is one, and their global checksums differ.
C8_Witness ==
    /\ Polled
    /\ Len(res) = 2
    /\ res[1].SerialNo # res[2].SerialNo
    /\ res[1].IsManageMaster = 0
    /\ res[2].IsManageMaster = 1
    /\ res[1].Checksum.Global # res[2].Checksum.Global
    /\ m[BlockStart(res, 2)].value = 0

(* ------------------------------------------------------------------ *)
(* C9                                                                  *)
(* ------------------------------------------------------------------ *)

\* C9: a poll and any poll before it whose fetch had the same result (both
\* failed, or both decoded the same snapshot) return the same flag and the
\* same set of observations, whatever was polled in between or before.
C9_Stateless ==
    (returned /\ kept.polled /\ kept.err = err /\ kept.res = res) =>
        /\ kept.ok = ok
        /\ kept.observations = Range(m)

\* A poll of two members has returned the observations of an earlier poll of
\* the same snapshot, a poll that fetched something else having returned in
\* between.
C9_Witness ==
    /\ returned
    /\ kept.polled
    /\ kept.another
    /\ ~err /\ ~kept.err
    /\ kept.res = res
    /\ Len(res) = 2
    /\ kept.observations = Range(m)

(* ------------------------------------------------------------------ *)
(* C10                                                                 *)
(* ------------------------------------------------------------------ *)

\* C10: when the serials of the members polled are pairwise distinct, no two
\* observations of the poll share their metric name and label values, and no
\* vdom observation has checksum_type global, root or all.
C10_UniqueLabels ==
    (Polled /\ \A i, j \in 1..Len(res) : res[i].SerialNo = res[j].SerialNo => i = j) =>
        /\ \A j, k \in DOMAIN m :
              (m[j].desc = m[k].desc /\ m[j].labels = m[k].labels) => j = k
        /\ Len(res) > 1 =>
              \A i \in 1..Len(res) : \A k \in VdomBlock(res, i) :
                  m[k].labels[1] \notin {"global", "root", "all"}

\* A successful poll of two members with distinct serials that both have the
\* vdom named root.
C10_Witness ==
    /\ Polled
    /\ Len(res) = 2
    /\ res[1].SerialNo # res[2].SerialNo
    /\ "root" \in DOMAIN res[1].Checksum.Vdoms
    /\ "root" \in DOMAIN res[2].Checksum.Vdoms
    /\ Positions(m, "fortigate_ha_checksum_sync", "vdom_root", res[2].SerialNo) # {}
    /\ Positions(m, "fortigate_ha_checksum_sync", "root", res[2].SerialNo) # {}

====
